---- MODULE Spec2Model ----
(***************************************************************************)
(* Tauri-JSON-Editor: the raw-text / tree synchronisation of App.vue and   *)
(* the file operations of its later revision.                              *)
(*                                                                         *)
(* A text is a sequence of one-character strings.  A value is a tagged     *)
(* tuple: <<"null">>, <<"bool", b>>, <<"num", m, e>>, <<"inf", sign>>,     *)
(* <<"str", chars>>, <<"arr", values>>, <<"obj", pairs>> with pairs a      *)
(* sequence of <<key, value>> in insertion order (as a JavaScript object   *)
(* keeps keys that are not array indices).                                 *)
(***************************************************************************)
EXTENDS Integers, Sequences, FiniteSets, Bags, TLC

(* ---------------------------------------------------------------------- *)
(* The sample document rawJsonInput is constructed with.                   *)
(* ---------------------------------------------------------------------- *)
SampleDocument ==
    <<
       "{", "\n",
       " ", " ", "\"", "n", "a", "m", "e", "\"", ":", " ", "\"", "T", "a", "u", "r", "i", "-", "J", "S", "O", "N", "-", "E", "d", "i", "t", "o", "r", "\"", ",", "\n",
       " ", " ", "\"", "v", "e", "r", "s", "i", "o", "n", "\"", ":", " ", "\"", "1", ".", "0", ".", "0", "\"", ",", "\n",
       " ", " ", "\"", "i", "s", "A", "w", "e", "s", "o", "m", "e", "\"", ":", " ", "t", "r", "u", "e", ",", "\n",
       " ", " ", "\"", "f", "e", "a", "t", "u", "r", "e", "s", "\"", ":", " ", "[", "\n",
       " ", " ", " ", " ", "\"", "R", "e", "a", "l", "-", "t", "i", "m", "e", " ", "J", "S", "O", "N", " ", "v", "a", "l", "i", "d", "a", "t", "i", "o", "n", "\"", ",", "\n",
       " ", " ", " ", " ", "\"", "P", "r", "e", "t", "t", "y", " ", "f", "o", "r", "m", "a", "t", "t", "i", "n", "g", "\"", "\n",
       " ", " ", "]", ",", "\n",
       " ", " ", "\"", "d", "e", "t", "a", "i", "l", "s", "\"", ":", " ", "{", "\n",
       " ", " ", " ", " ", "\"", "l", "e", "v", "e", "l", "\"", ":", " ", "1", ",", "\n",
       " ", " ", " ", " ", "\"", "a", "c", "t", "i", "v", "e", "\"", ":", " ", "n", "u", "l", "l", "\n",
       " ", " ", "}", "\n",
       "}" >>

(* ---------------------------------------------------------------------- *)
(* JSON.parse, as the platform does it: a recursive-descent parse of the   *)
(* whole text.  A result is [ok, val, pos]: on success val is the value    *)
(* and pos the index after it; on failure pos is the index of the          *)
(* offending character (Len + 1 at an unexpected end of input).            *)
(* ---------------------------------------------------------------------- *)
Whitespace == {" ", "\n", "\t", "\r"}

Digits == <<"0", "1", "2", "3", "4", "5", "6", "7", "8", "9">>

DigitValues == [c \in {Digits[d] : d \in DOMAIN Digits} |->
                   (CHOOSE d \in DOMAIN Digits : Digits[d] = c) - 1]

IsDigit(c) == c \in DOMAIN DigitValues

DigitValue(c) == DigitValues[c]

ParseOk(v, p) == [ok |-> TRUE, val |-> v, pos |-> p]

ParseFail(p) == [ok |-> FALSE, val |-> <<"null">>, pos |-> p]

(* The character at index i, or "" past the end of the text.               *)
CharAt(s, i) == IF i <= Len(s) THEN s[i] ELSE ""

RECURSIVE SkipWs(_, _)
SkipWs(s, i) ==
    IF CharAt(s, i) \in Whitespace THEN SkipWs(s, i + 1) ELSE i

(* The characters of a string literal from index j (after the opening     *)
(* quote) to its closing quote; acc is what has been read so far.          *)
Unescape(c) == IF c = "n" THEN "\n" ELSE IF c = "t" THEN "\t" ELSE c

ControlCharacters == {"\n", "\t", "\r"}

Escapes == {"\"", "\\", "n", "t"}

RECURSIVE ScanString(_, _, _)
ScanString(s, j, acc) ==
    IF j > Len(s) \/ s[j] \in ControlCharacters THEN ParseFail(j)
    ELSE IF s[j] = "\"" THEN ParseOk(<<"str", acc>>, j + 1)
    ELSE IF s[j] # "\\" THEN ScanString(s, j + 1, Append(acc, s[j]))
    ELSE IF CharAt(s, j + 1) \in Escapes
        THEN ScanString(s, j + 2, Append(acc, Unescape(s[j + 1])))
    ELSE ParseFail(j + 1)

(* Numbers.  A finite number is <<"num", m, e>>, standing for m * 10^e     *)
(* with m not divisible by 10 (0 is <<"num", 0, 0>>, which -0 equals); a   *)
(* literal beyond the range of a double is read as <<"inf", sign>>.  A     *)
(* double holds a mantissa of up to 15 digits exactly, so the decimal      *)
(* stands for the double as long as the texts keep to MantissaDigits.      *)
MantissaDigits == 9

(* The largest double is 1.7976931348623157e308.                           *)
MaxExponent == 308

MaxMantissa == 179769313

(* The smallest double above 0 is 5e-324.                                  *)
MinExponent == -324

RECURSIVE NumDigits(_)
NumDigits(n) == IF n < 10 THEN 1 ELSE 1 + NumDigits(n \div 10)

RECURSIVE Pow10(_)
Pow10(k) == IF k = 0 THEN 1 ELSE 10 * Pow10(k - 1)

(* m * 10^e, m > 0 not divisible by 10, whose first digit has weight       *)
(* 10^lead.                                                                *)
Rounded(sign, m, e, lead) ==
    IF lead > MaxExponent
       \/ (lead = MaxExponent /\ m * Pow10(MantissaDigits - NumDigits(m)) > MaxMantissa)
    THEN <<"inf", sign>>
    ELSE IF lead < MinExponent THEN <<"num", 0, 0>>
    ELSE <<"num", sign * m, e>>

RECURSIVE Normalized(_, _, _)
Normalized(sign, m, e) ==
    IF m = 0 THEN <<"num", 0, 0>>
    ELSE IF m % 10 = 0 THEN Normalized(sign, m \div 10, e + 1)
    ELSE Rounded(sign, m, e, NumDigits(m) + e - 1)

NumberEnd(j, sign, m, e) == ParseOk(Normalized(sign, m, e), j)

RECURSIVE ScanExp(_, _, _, _, _, _, _)
ScanExp(s, j, sign, m, e, esign, x) ==
    IF IsDigit(CharAt(s, j))
    THEN ScanExp(s, j + 1, sign, m, e, esign, 10 * x + DigitValue(s[j]))
    ELSE NumberEnd(j, sign, m, e + esign * x)

ExpDigits(s, j, sign, m, e, esign) ==
    IF IsDigit(CharAt(s, j)) THEN ScanExp(s, j, sign, m, e, esign, 0)
    ELSE ParseFail(j)

ExpPart(s, j, sign, m, e) ==
    IF CharAt(s, j) \notin {"e", "E"} THEN NumberEnd(j, sign, m, e)
    ELSE IF CharAt(s, j + 1) = "-" THEN ExpDigits(s, j + 2, sign, m, e, -1)
    ELSE IF CharAt(s, j + 1) = "+" THEN ExpDigits(s, j + 2, sign, m, e, 1)
    ELSE ExpDigits(s, j + 1, sign, m, e, 1)

RECURSIVE ScanFrac(_, _, _, _, _)
ScanFrac(s, j, sign, m, e) ==
    IF IsDigit(CharAt(s, j))
    THEN ScanFrac(s, j + 1, sign, 10 * m + DigitValue(s[j]), e - 1)
    ELSE ExpPart(s, j, sign, m, e)

FracPart(s, j, sign, m) ==
    IF CharAt(s, j) # "." THEN ExpPart(s, j, sign, m, 0)
    ELSE IF IsDigit(CharAt(s, j + 1)) THEN ScanFrac(s, j + 1, sign, m, 0)
    ELSE ParseFail(j + 1)

RECURSIVE ScanInt(_, _, _, _)
ScanInt(s, j, sign, m) ==
    IF IsDigit(CharAt(s, j))
    THEN ScanInt(s, j + 1, sign, 10 * m + DigitValue(s[j]))
    ELSE FracPart(s, j, sign, m)

(* The digits of a number from index j, after its sign: a leading 0 is    *)
(* the whole integer part.                                                 *)
IntPart(s, j, sign) ==
    IF ~IsDigit(CharAt(s, j)) THEN ParseFail(j)
    ELSE IF s[j] = "0" THEN FracPart(s, j + 1, sign, 0)
    ELSE ScanInt(s, j, sign, 0)

ParseNumber(s, i) ==
    IF s[i] = "-" THEN IntPart(s, i + 1, -1) ELSE IntPart(s, i, 1)

RECURSIVE MatchLiteral(_, _, _, _, _)
MatchLiteral(s, i, word, k, v) ==
    IF k > Len(word) THEN ParseOk(v, i)
    ELSE IF CharAt(s, i) # word[k] THEN ParseFail(i)
    ELSE MatchLiteral(s, i + 1, word, k + 1, v)

Literals ==
    [t |-> [word |-> <<"t", "r", "u", "e">>, val |-> <<"bool", TRUE>>],
     f |-> [word |-> <<"f", "a", "l", "s", "e">>, val |-> <<"bool", FALSE>>],
     n |-> [word |-> <<"n", "u", "l", "l">>, val |-> <<"null">>]]

(* Assigning obj[k] = v: a repeated key keeps its first position and takes *)
(* the last value.                                                         *)
ObjPut(pairs, k, v) ==
    IF \E n \in DOMAIN pairs : pairs[n][1] = k
    THEN [n \in DOMAIN pairs |-> IF pairs[n][1] = k THEN <<k, v>> ELSE pairs[n]]
    ELSE Append(pairs, <<k, v>>)

RECURSIVE ParseValueAt(_, _)
RECURSIVE ElementsNext(_, _, _)
RECURSIVE MembersNext(_, _, _, _)

ParseValue(s, i) == ParseValueAt(s, SkipWs(s, i))

(* The elements of an array from index i, where a value must start; acc   *)
(* holds the elements before it.                                           *)
ParseElements(s, i, acc) ==
    ElementsNext(s, ParseValueAt(s, i), acc)

ElementsAfter(s, r, j, acc) ==
    IF CharAt(s, j) = "," THEN ParseElements(s, SkipWs(s, j + 1), Append(acc, r.val))
    ELSE IF CharAt(s, j) = "]" THEN ParseOk(<<"arr", Append(acc, r.val)>>, j + 1)
    ELSE ParseFail(j)

ElementsNext(s, r, acc) ==
    IF ~r.ok THEN r ELSE ElementsAfter(s, r, SkipWs(s, r.pos), acc)

(* An object member "key": value, from the key's opening quote at i.       *)
MemberValue(s, key, c, acc) ==
    IF ~key.ok THEN key
    ELSE IF CharAt(s, c) # ":" THEN ParseFail(c)
    ELSE MembersNext(s, key.val[2], ParseValue(s, c + 1), acc)

MemberKey(s, key, acc) == MemberValue(s, key, SkipWs(s, key.pos), acc)

ParseMembers(s, i, acc) ==
    IF CharAt(s, i) # "\"" THEN ParseFail(i)
    ELSE MemberKey(s, ScanString(s, i + 1, <<>>), acc)

MembersAfter(s, k, r, j, acc) ==
    IF CharAt(s, j) = "," THEN ParseMembers(s, SkipWs(s, j + 1), ObjPut(acc, k, r.val))
    ELSE IF CharAt(s, j) = "}" THEN ParseOk(<<"obj", ObjPut(acc, k, r.val)>>, j + 1)
    ELSE ParseFail(j)

MembersNext(s, k, r, acc) ==
    IF ~r.ok THEN r ELSE MembersAfter(s, k, r, SkipWs(s, r.pos), acc)

(* After "{" or "[": the empty container, or its members from index j.     *)
ParseContainer(s, open, j) ==
    IF open = "{" THEN
        (IF CharAt(s, j) = "}" THEN ParseOk(<<"obj", <<>>>>, j + 1)
         ELSE ParseMembers(s, j, <<>>))
    ELSE
        (IF CharAt(s, j) = "]" THEN ParseOk(<<"arr", <<>>>>, j + 1)
         ELSE ParseElements(s, j, <<>>))

ParseValueAt(s, i) ==
    IF CharAt(s, i) \in {"{", "["} THEN ParseContainer(s, s[i], SkipWs(s, i + 1))
    ELSE IF CharAt(s, i) = "\"" THEN ScanString(s, i + 1, <<>>)
    ELSE IF CharAt(s, i) \in DOMAIN Literals
        THEN MatchLiteral(s, i, Literals[s[i]].word, 1, Literals[s[i]].val)
    ELSE IF CharAt(s, i) = "-" \/ IsDigit(CharAt(s, i)) THEN ParseNumber(s, i)
    ELSE ParseFail(i)

(* Only whitespace may follow the value.                                   *)
ParseEnd(s, r, j) ==
    IF ~r.ok \/ j > Len(s) THEN r ELSE ParseFail(j)

ParseWhole(s, r) == ParseEnd(s, r, SkipWs(s, r.pos))

Parse(s) == ParseWhole(s, ParseValue(s, 1))

(* e.message of the SyntaxError JSON.parse throws at index p of s: never   *)
(* empty.                                                                  *)
SyntaxErrorMessage(s, p) ==
    IF p > Len(s) THEN "Unexpected end of JSON input"
    ELSE IF IsDigit(s[p]) \/ s[p] = "-"
        THEN "Unexpected number in JSON at position " \o ToString(p - 1)
    ELSE IF s[p] = "\""
        THEN "Unexpected string in JSON at position " \o ToString(p - 1)
    ELSE "Unexpected token " \o s[p] \o " in JSON at position " \o ToString(p - 1)

(* ---------------------------------------------------------------------- *)
(* JSON.stringify(value, null, space): space = 0 is JSON.stringify(value). *)
(* ---------------------------------------------------------------------- *)
RECURSIVE NatText(_)
NatText(n) ==
    IF n < 10 THEN <<Digits[n + 1]>>
    ELSE NatText(n \div 10) \o <<Digits[(n % 10) + 1]>>

Zeros(n) == [k \in 1..n |-> "0"]

(* Number::toString of the exponent x of the scientific notation.          *)
ExponentText(x) ==
    IF x < 0 THEN <<"e", "-">> \o NatText(0 - x) ELSE <<"e", "+">> \o NatText(x)

(* Number::toString of a positive number with the digits ds, the decimal   *)
(* point standing after the first n of them.                               *)
DigitsText(ds, n) ==
    IF Len(ds) <= n /\ n <= 21 THEN ds \o Zeros(n - Len(ds))
    ELSE IF 0 < n /\ n <= 21
        THEN SubSeq(ds, 1, n) \o <<".">> \o SubSeq(ds, n + 1, Len(ds))
    ELSE IF -6 < n /\ n <= 0 THEN <<"0", ".">> \o Zeros(0 - n) \o ds
    ELSE IF Len(ds) = 1 THEN ds \o ExponentText(n - 1)
    ELSE <<ds[1], ".">> \o Tail(ds) \o ExponentText(n - 1)

MantissaText(m, e) == DigitsText(NatText(m), NumDigits(m) + e)

NumText(m, e) ==
    IF m < 0 THEN <<"-">> \o MantissaText(0 - m, e) ELSE MantissaText(m, e)

EscapeChar(c) ==
    IF c \in {"\"", "\\"} THEN <<"\\", c>>
    ELSE IF c = "\n" THEN <<"\\", "n">>
    ELSE IF c = "\t" THEN <<"\\", "t">>
    ELSE <<c>>

RECURSIVE Escape(_)
Escape(chars) ==
    IF chars = <<>> THEN <<>>
    ELSE EscapeChar(Head(chars)) \o Escape(Tail(chars))

Quote(chars) == <<"\"">> \o Escape(chars) \o <<"\"">>

Spaces(n) == [k \in 1..n |-> " "]

RECURSIVE JoinItems(_, _)
JoinItems(items, sep) ==
    IF Len(items) <= 1 THEN (IF items = <<>> THEN <<>> ELSE items[1])
    ELSE items[1] \o sep \o JoinItems(Tail(items), sep)

(* "[" / "{" , the items, "]" / "}" at nesting depth level.                *)
Bracket(open, items, close, space, level) ==
    IF items = <<>> THEN <<open, close>>
    ELSE IF space = 0 THEN <<open>> \o JoinItems(items, <<",">>) \o <<close>>
    ELSE <<open, "\n">> \o Spaces(space * (level + 1))
         \o JoinItems(items, <<",", "\n">> \o Spaces(space * (level + 1)))
         \o <<"\n">> \o Spaces(space * level) \o <<close>>

Colon(space) == IF space = 0 THEN <<":">> ELSE <<":", " ">>

RECURSIVE Serialize(_, _, _)
Serialize(v, space, level) ==
    IF v[1] = "null" THEN <<"n", "u", "l", "l">>
    ELSE IF v[1] = "bool" THEN Literals[IF v[2] THEN "t" ELSE "f"].word
    ELSE IF v[1] = "num" THEN NumText(v[2], v[3])
    ELSE IF v[1] = "inf" THEN <<"n", "u", "l", "l">>
    ELSE IF v[1] = "str" THEN Quote(v[2])
    ELSE IF v[1] = "arr" THEN
        Bracket("[", [n \in DOMAIN v[2] |-> Serialize(v[2][n], space, level + 1)],
                "]", space, level)
    ELSE
        Bracket("{", [n \in DOMAIN v[2] |->
                        Quote(v[2][n][1]) \o Colon(space)
                        \o Serialize(v[2][n][2], space, level + 1)],
                "}", space, level)

PrettyIndent == 2

(* The initial document and its minified form stay in rawJsonInput through *)
(* most tasks: their parse and the serializations of their value are       *)
(* computed once.                                                          *)
SampleParsed == Parse(SampleDocument)

SampleMinified == Serialize(SampleParsed.val, 0, 0)

SampleMinifiedParsed == Parse(SampleMinified)

SamplePretty == Serialize(SampleParsed.val, PrettyIndent, 0)

JSONparse(s) ==
    IF s = SampleDocument THEN SampleParsed
    ELSE IF s = SampleMinified THEN SampleMinifiedParsed
    ELSE Parse(s)

JSONstringify(v, space) ==
    IF v # SampleParsed.val THEN Serialize(v, space, 0)
    ELSE IF space = 0 THEN SampleMinified
    ELSE IF space = PrettyIndent THEN SamplePretty
    ELSE Serialize(v, space, 0)

(* ---------------------------------------------------------------------- *)
(* String.prototype.trim and the line loop of displayJSON.                 *)
(* NUL stands for the character '\0'.                                      *)
(* ---------------------------------------------------------------------- *)
NUL == "NUL"

RECURSIVE TrimStart(_)
TrimStart(t) ==
    IF t # <<>> /\ Head(t) \in Whitespace THEN TrimStart(Tail(t)) ELSE t

RECURSIVE TrimEnd(_)
TrimEnd(t) ==
    IF t # <<>> /\ t[Len(t)] \in Whitespace THEN TrimEnd(SubSeq(t, 1, Len(t) - 1)) ELSE t

Trim(t) == TrimEnd(TrimStart(t))

(* for await (const line of lines) { ... parsed += newLine + '\n' }        *)
RECURSIVE JoinLines(_)
JoinLines(lines) ==
    IF lines = <<>> THEN <<>>
    ELSE LET line    == Head(lines)
             newLine == IF line # <<>> /\ line[Len(line)] = NUL
                        THEN SubSeq(line, 1, Len(line) - 1) ELSE line
         IN  newLine \o <<"\n">> \o JoinLines(Tail(lines))

(* ---------------------------------------------------------------------- *)
(* Inputs of the model.                                                    *)
(* ---------------------------------------------------------------------- *)
(* The revisions of the component under src/.  part_000 has the same       *)
(* synchronisation code as App.vue, and the panels and font sizes that     *)
(* App.vue lacks.                                                          *)
Revisions == {"App.vue", "part_000", "part_001"}

(* The revisions with a Format and a Minify button.                        *)
TwoButtons == {"App.vue", "part_000"}

ObjMin == <<"{", "\"", "a", "\"", ":", "1", "}">>

(* ObjMin on three lines, "a": 1 indented by two spaces.                   *)
ObjPretty == <<"{", "\n", " ", " ", "\"", "a", "\"", ":", " ", "1", "\n", "}">>

ObjTruncated == <<"{", "\"", "a", "\"", ":", "1">>

(* A number literal beyond the range of a double.                          *)
Overflow == <<"1", "e", "4", "0", "0">>

(* [1,]                                                                    *)
TrailingComma == <<"[", "1", ",", "]">>

(* What the user may leave in the textarea.                                *)
InputTexts == {ObjMin, Overflow, TrailingComma}

(* Values the tree widget may emit besides the one it displays:            *)
(* ["x\"\n", -12, {}].                                                     *)
EditValues ==
    { <<"arr", << <<"str", <<"x", "\"", "\n">>>>, <<"num", -12, 0>>, <<"obj", <<>>>> >> >> }

(* A path is its '.'-separated parts; NoPath is the null a cancelled       *)
(* dialog resolves to.                                                     *)
NoPath == <<>>

UntitledJson == <<"untitled", "json">>

DataJson == <<"data", "json">>

ReadmeMd == <<"readme", "md">>

OpenPaths == {DataJson, ReadmeMd}

SavePaths == {DataJson, ReadmeMd}

(* The lines readTextFileLines may yield for a file.                       *)
FileContents ==
    { <<<<>>, <<"{", "\"", "a", "\"", ":", "1", ",">>,
        <<" ", "\"", "a", "\"", ":", "-", "2", ".", "5", "0", "}", NUL>>, <<>>>>,
      <<ObjTruncated>>,
      <<>> }

IOErrors == {"io error"}

fileExtensions == {"json", "txt"}

(* In-flight asynchronous calls (dialogs, reads, writes) at one time.      *)
MaxInFlight == 1

(* Font sizes are counted in hundredths of an em, so that a step of 0.1em  *)
(* is an exact decimal step.                                               *)
FontStep == 10

MinFontSize == 50

defaultInputFontSize == 120

defaultOutputFontSize == 120

(* const fontSize = ref(1.15), const outputFontSize = ref(1.3) in part_000 *)
fontSize == 115

outputFontSizeOfPart000 == 130

(* The largest size from which the model still increases a font.           *)
MaxFontSize == 140

(* Colours of the picker; the first is the initial one.                    *)
Colors == {"#444", "#123456"}

(* ---------------------------------------------------------------------- *)
(* State.  Every action below is one task of the event loop: a handler (or *)
(* the continuation of an await) run to completion, followed by the flush  *)
(* of the watcher job it scheduled.  Vue flushes that job as a microtask,  *)
(* before the next event or continuation starts, so no other handler sees  *)
(* the state in between.                                                   *)
(* ---------------------------------------------------------------------- *)
VARIABLES
    revision,       \* which revision of the component runs
    rawJsonInput,   \* RawText: ref bound to the textarea
    displayData,    \* DisplayValue: ref bound to the tree widget
    errorMessage,   \* Diagnostic: `error` in App.vue, `errorMessage` in part_001
    isFormatMode,   \* part_001: the toggle behind the Format/Minify button
    defaultPath,    \* part_001: the path the save dialog opens with
    inflight,       \* part_001: pending dialogs, reads and writes
    requested,      \* history: the loads requested while reads are pending, the last two
    isLeftPanelVisible, isRightPanelVisible,     \* part_000, part_001: the panels
    showLineNumber, showLength, isEditable,      \* the switches of the tree widget
    inputFontSize,  \* font size of the textarea (`fontSize` in part_000)
    outputFontSize, \* font size of the tree
    textareaBackgroundColor,                     \* part_001
    lastOp,         \* history: the handler that ran last
    path,           \* history: the path the last task was given or completed
    written,        \* history: the file the last task's write left on disk
    edited,         \* history: the value handleEdit was given, if it ran last
    priorError,     \* history: errorMessage was non-empty before the last task
    watchRan,       \* history: what the watcher did in the last task
    unhandled,      \* history: the last task let an exception or rejection escape
    original,       \* history: rawJsonInput before the Format/Minify click that ran last
    lastValid       \* history: the last text assigned to rawJsonInput that parses

syncVars == <<rawJsonInput, displayData, errorMessage>>

fileVars == <<isFormatMode, defaultPath, inflight, requested>>

panelVars == <<isLeftPanelVisible, isRightPanelVisible>>

treeVars == <<showLineNumber, showLength, isEditable>>

fontVars == <<inputFontSize, outputFontSize>>

uiVars == <<panelVars, treeVars, fontVars, textareaBackgroundColor>>

histVars ==
    <<lastOp, edited, priorError, watchRan, unhandled, original, lastValid, path, written>>

vars == <<revision, syncVars, fileVars, uiVars, histVars>>

Null == <<"null">>

(* displayData.value = { error: "Invalid initial JSON" }                   *)
InitialPlaceholder ==
    <<"obj", << << <<"e", "r", "r", "o", "r">>,
                   <<"str", <<"I", "n", "v", "a", "l", "i", "d", " ", "i", "n", "i", "t",
                              "i", "a", "l", " ", "J", "S", "O", "N">>>> >> >> >>

(* try { displayData.value = JSON.parse(rawJsonInput.value) } catch ...    *)
InitialData(r) == IF r.ok THEN r.val ELSE InitialPlaceholder

(* The font sizes a revision starts with; App.vue has no font-size refs.   *)
InitialInputFontSize(r) ==
    IF r = "part_001" THEN defaultInputFontSize ELSE IF r = "part_000" THEN fontSize ELSE 0

InitialOutputFontSize(r) ==
    IF r = "part_001" THEN defaultOutputFontSize
    ELSE IF r = "part_000" THEN outputFontSizeOfPart000 ELSE 0

(* What `written` holds when the last task completed no write.             *)
NoWrite == <<>>

Init ==
    /\ revision \in Revisions
    /\ rawJsonInput = SampleDocument
    /\ displayData = InitialData(JSONparse(SampleDocument))
    /\ errorMessage = ""
    /\ isFormatMode = FALSE
    /\ defaultPath = UntitledJson
    /\ inflight = EmptyBag
    /\ requested = <<>>
    /\ isLeftPanelVisible = TRUE
    /\ isRightPanelVisible = TRUE
    /\ showLineNumber = TRUE
    /\ showLength = TRUE
    /\ isEditable = TRUE
    /\ inputFontSize = InitialInputFontSize(revision)
    /\ outputFontSize = InitialOutputFontSize(revision)
    /\ textareaBackgroundColor = "#444"
    /\ path = NoPath
    /\ written = NoWrite
    /\ lastOp = "init"
    /\ edited = Null
    /\ priorError = FALSE
    /\ watchRan = "no"
    /\ unhandled = FALSE
    /\ original = <<>>
    /\ lastValid = SampleDocument

(* ---------------------------------------------------------------------- *)
(* Helpers shared by the handlers.                                         *)
(* ---------------------------------------------------------------------- *)
Formatted_Clears(text, r, space) ==
    IF r.ok THEN [raw |-> JSONstringify(r.val, space), msg |-> ""]
    ELSE [raw |-> text, msg |-> ""]

Formatted_Unwrapped(text, r, space) ==
    IF r.ok THEN [raw |-> JSONstringify(r.val, space), msg |-> ""]
    ELSE [raw |-> text, msg |-> SyntaxErrorMessage(text, r.pos)]

(* try { parsed = JSON.parse(text); text = JSON.stringify(parsed, null,    *)
(* space); error = '' } catch (e) { error = `Invalid JSON: ${e.message}` } *)
(* given r = JSON.parse(text): the text and the message it leaves.         *)
Formatted(text, r, space) ==
    IF r.ok THEN [raw |-> JSONstringify(r.val, space), msg |-> ""]
    ELSE [raw |-> text, msg |-> "Invalid JSON: " \o SyntaxErrorMessage(text, r.pos)]

TryFormat(text, space) == Formatted(text, JSONparse(text), space)

_toggleFormat_Swapped(mode, text) ==
    TryFormat(text, IF mode THEN PrettyIndent ELSE 0)

_toggleFormat_Quiet(mode, text) ==
    Formatted_Clears(text, JSONparse(text), IF ~mode THEN PrettyIndent ELSE 0)

_toggleFormat(mode, text) ==
    TryFormat(text, IF ~mode THEN PrettyIndent ELSE 0)

(* Variants of the definitions below, against which the properties at the *)
(* end of the module are tested.                                           *)
handleRawJsonInputChange_Clears(newInput, r) ==
    IF r.ok THEN [data |-> r.val, msg |-> "", ran |-> "parsed"]
    ELSE [data |-> Null, msg |-> SyntaxErrorMessage(newInput, r.pos),
          ran |-> "failed"]

handleRawJsonInputChange_Silent(newInput, r) ==
    IF r.ok THEN [data |-> r.val, msg |-> "", ran |-> "parsed"]
    ELSE [data |-> displayData, msg |-> "", ran |-> "failed"]

handleRawJsonInputChange_KeepsMessage(newInput, r) ==
    IF r.ok THEN [data |-> r.val, msg |-> errorMessage, ran |-> "parsed"]
    ELSE [data |-> displayData, msg |-> SyntaxErrorMessage(newInput, r.pos),
          ran |-> "failed"]

handleRawJsonInputChange_StaleMessage(newInput, r) ==
    IF r.ok THEN [data |-> r.val, msg |-> "", ran |-> "parsed"]
    ELSE [data |-> displayData,
          msg |-> IF errorMessage = "" THEN SyntaxErrorMessage(newInput, r.pos)
                  ELSE errorMessage,
          ran |-> "failed"]

(* The watcher callback, r being what JSON.parse(newInput) returns or      *)
(* throws: what it leaves in displayData and errorMessage.                 *)
handleRawJsonInputChange(newInput, r) ==
    IF r.ok THEN [data |-> r.val, msg |-> "", ran |-> "parsed"]
    ELSE [data |-> displayData, msg |-> SyntaxErrorMessage(newInput, r.pos),
          ran |-> "failed"]

Watch_Always(newInput, r, msg) == handleRawJsonInputChange(newInput, r)

(* watch(rawJsonInput, ...): the job runs the callback when the value      *)
(* differs from the one it saw last, which is the value before the task.   *)
(* msg is what the handler left in the error message.                      *)
Watch(newInput, r, msg) ==
    IF newInput # rawJsonInput THEN handleRawJsonInputChange(newInput, r)
    ELSE [data |-> displayData, msg |-> msg, ran |-> "no"]

(* The end of a task that left text in rawJsonInput: w is what the watcher *)
(* job does, r the parse of text.                                          *)
Flushed(text, r, w) ==
    /\ rawJsonInput' = text
    /\ displayData' = w.data
    /\ errorMessage' = w.msg
    /\ watchRan' = w.ran
    /\ lastValid' = IF r.ok THEN text ELSE lastValid

Parsed(text, r, msg) == Flushed(text, r, Watch(text, r, msg))

(* A task ends with rawJsonInput = text and the handler's message msg;     *)
(* then the watcher job is flushed.                                        *)
Sync(text, msg) == Parsed(text, JSONparse(text), msg)

(* The same for the result f of TryFormat.                                 *)
SyncFormatted(f) == Sync(f.raw, f.msg)

(* A task that does not assign rawJsonInput and leaves msg.                *)
NoSync(msg) ==
    /\ errorMessage' = msg
    /\ watchRan' = "no"
    /\ UNCHANGED <<rawJsonInput, displayData, lastValid>>

(* The history of a task: p is the path it was given or completed, w the   *)
(* file its write left on disk.                                            *)
Record(op, v, escaped, p, w) ==
    /\ lastOp' = op
    /\ edited' = v
    /\ priorError' = (errorMessage # "")
    /\ unhandled' = escaped
    /\ original' = IF op \in {"formatJson", "minifyJson", "toggleFormatMinify"}
                   THEN rawJsonInput ELSE <<>>
    /\ path' = p
    /\ written' = w

History(op, v, escaped) == Record(op, v, escaped, NoPath, NoWrite)

(* A pending asynchronous call: a dialog, a read or a write, and the path  *)
(* it was given.  inflight is the bag of them.                             *)
Task(op, p) == [op |-> op, path |-> p]

(* writeTextFile(filePath, rawJsonInput.value): the call holds the text it *)
(* was given.                                                              *)
WriteTask(p, text) == [op |-> "write", path |-> p, text |-> text]

Reads(tasks) == {t \in BagToSet(tasks) : t.op = "read"}

(* Fewer than n calls are in flight.                                       *)
Room(n) == BagCardinality(inflight) < n

Pending(op) == {t \in BagToSet(inflight) : t.op = op}

Started(tasks, t) == tasks (+) SetToBag({t})

Settled(tasks, t) == tasks (-) SetToBag({t})

(* ---------------------------------------------------------------------- *)
(* Handlers of every revision.                                             *)
(* ---------------------------------------------------------------------- *)
(* <textarea v-model="rawJsonInput">: the user leaves text t in the box.   *)
textareaInput(t) ==
    /\ Sync(t, errorMessage)
    /\ History("textareaInput", Null, FALSE)
    /\ UNCHANGED <<revision, uiVars, fileVars>>

handleEdit_Minified(newData) ==
    /\ isEditable
    /\ Sync(JSONstringify(newData, 0), errorMessage)
    /\ History("handleEdit", newData, FALSE)
    /\ UNCHANGED <<revision, uiVars, fileVars>>

(* @update:data="handleEdit" of the tree widget, which lets the user edit *)
(* while :editable="isEditable" holds.                                     *)
handleEdit(newData) ==
    /\ isEditable
    /\ Sync(JSONstringify(newData, PrettyIndent), errorMessage)
    /\ History("handleEdit", newData, FALSE)
    /\ UNCHANGED <<revision, uiVars, fileVars>>

(* ---------------------------------------------------------------------- *)
(* App.vue (and part_000): the Format and Minify buttons.                  *)
(* ---------------------------------------------------------------------- *)
formatJson ==
    /\ revision \in TwoButtons
    /\ SyncFormatted(TryFormat(rawJsonInput, PrettyIndent))
    /\ History("formatJson", Null, FALSE)
    /\ UNCHANGED <<revision, uiVars, fileVars>>

minifyJson ==
    /\ revision \in TwoButtons
    /\ SyncFormatted(TryFormat(rawJsonInput, 0))
    /\ History("minifyJson", Null, FALSE)
    /\ UNCHANGED <<revision, uiVars, fileVars>>

(* ---------------------------------------------------------------------- *)
(* part_001: the single Format/Minify button and the file operations.      *)
(* ---------------------------------------------------------------------- *)
toggleFormatMinify ==
    /\ revision = "part_001"
    /\ isFormatMode' = ~isFormatMode
    /\ SyncFormatted(_toggleFormat(~isFormatMode, rawJsonInput))
    /\ History("toggleFormatMinify", Null, FALSE)
    /\ UNCHANGED <<revision, uiVars, defaultPath, inflight, requested>>

(* displayJSON up to its first await: the message it leaves, and whether   *)
(* it goes on to read the file.                                            *)
Extension(filePath) == filePath[Len(filePath)]

displayJSON_Unchecked(filePath) ==
    IF filePath = NoPath
    THEN [msg |-> "file extension is null.", reads |-> FALSE]
    ELSE [msg |-> errorMessage, reads |-> TRUE]

displayJSON(filePath) ==
    IF filePath = NoPath
    THEN [msg |-> "file extension is null.", reads |-> FALSE]
    ELSE IF Extension(filePath) \notin fileExtensions
    THEN [msg |-> "Unsupported file type: " \o Extension(filePath), reads |-> FALSE]
    ELSE [msg |-> errorMessage, reads |-> TRUE]

(* The calls in flight after displayJSON(filePath) ran to its first await  *)
(* (d is its result), rest being the other calls.                          *)
Reading(rest, filePath, d) ==
    IF d.reads THEN Started(rest, Task("read", filePath)) ELSE rest

(* The loads requested once filePath is: filePath alone, or after the load *)
(* requested before it when a read is still pending.                       *)
Requested(filePath) ==
    IF Reads(inflight) = {} THEN <<filePath>>
    ELSE <<requested[Len(requested)], filePath>>

Displayed(rest, filePath, d) ==
    /\ NoSync(d.msg)
    /\ inflight' = Reading(rest, filePath, d)
    /\ requested' = IF d.reads THEN Requested(filePath) ELSE requested

(* The loads requested, once a read has settled and left the calls in      *)
(* tasks: they are forgotten when no read is pending.                      *)
StillRequested(tasks) == IF Reads(tasks) = {} THEN <<>> ELSE requested

(* openFile up to `await open(...)`; also Ctrl/Cmd+O.                      *)
openFile ==
    /\ revision = "part_001"
    /\ inflight' = Started(inflight, Task("open", NoPath))
    /\ NoSync(errorMessage)
    /\ History("openFile", Null, FALSE)
    /\ UNCHANGED <<revision, uiVars, isFormatMode, defaultPath, requested>>

(* The open dialog resolves with a path, or null when cancelled, and       *)
(* openFile calls displayJSON.                                             *)
openResolved(t, filePath) ==
    /\ t \in Pending("open")
    /\ Displayed(Settled(inflight, t), filePath, displayJSON(filePath))
    /\ Record("openResolved", Null, FALSE, filePath, NoWrite)
    /\ UNCHANGED <<revision, uiVars, isFormatMode, defaultPath>>

(* The open dialog rejects: openFile has no try/catch.                     *)
openRejected(t) ==
    /\ t \in Pending("open")
    /\ inflight' = Settled(inflight, t)
    /\ NoSync(errorMessage)
    /\ History("openRejected", Null, TRUE)
    /\ UNCHANGED <<revision, uiVars, isFormatMode, defaultPath, requested>>

(* The listener of 'tauri://drag-drop'.                                    *)
handleFileDragDrop(paths) ==
    /\ revision = "part_001"
    /\ IF Len(paths) > 0
       THEN /\ defaultPath' = paths[1]
            /\ Displayed(inflight, paths[1], displayJSON(paths[1]))
            /\ Record("handleFileDragDrop", Null, FALSE, paths[1], NoWrite)
       ELSE /\ NoSync(errorMessage)
            /\ History("handleFileDragDrop", Null, FALSE)
            /\ UNCHANGED <<defaultPath, inflight, requested>>
    /\ UNCHANGED <<revision, uiVars, isFormatMode>>

(* displayJSON after the file's lines were read.                           *)
readResolved(t, lines) ==
    /\ t \in Pending("read")
    /\ inflight' = Settled(inflight, t)
    /\ requested' = StillRequested(Settled(inflight, t))
    /\ SyncFormatted(_toggleFormat(isFormatMode, Trim(JoinLines(lines))))
    /\ Record("readResolved", Null, FALSE, t.path, NoWrite)
    /\ UNCHANGED <<revision, uiVars, isFormatMode, defaultPath>>

(* readTextFileLines (or the iteration) rejects: displayJSON has no        *)
(* try/catch and its callers do not await it.                              *)
readRejected(t) ==
    /\ t \in Pending("read")
    /\ inflight' = Settled(inflight, t)
    /\ requested' = StillRequested(Settled(inflight, t))
    /\ NoSync(errorMessage)
    /\ Record("readRejected", Null, TRUE, t.path, NoWrite)
    /\ UNCHANGED <<revision, uiVars, isFormatMode, defaultPath>>

saveFile_Announces ==
    /\ revision = "part_001"
    /\ inflight' = Started(inflight, Task("save", defaultPath))
    /\ NoSync("File saved successfully!")
    /\ History("saveFile", Null, FALSE)
    /\ UNCHANGED <<revision, uiVars, isFormatMode, defaultPath, requested>>

(* saveFile up to `await save({ ..., defaultPath })`; also Ctrl/Cmd+S.     *)
saveFile ==
    /\ revision = "part_001"
    /\ inflight' = Started(inflight, Task("save", defaultPath))
    /\ NoSync(errorMessage)
    /\ History("saveFile", Null, FALSE)
    /\ UNCHANGED <<revision, uiVars, isFormatMode, defaultPath, requested>>

saveResolved_Formats(t, filePath) ==
    /\ t \in Pending("save")
    /\ SyncFormatted(TryFormat(rawJsonInput, PrettyIndent))
    /\ inflight' = IF filePath = NoPath THEN Settled(inflight, t)
                   ELSE Started(Settled(inflight, t), WriteTask(filePath, rawJsonInput))
    /\ Record("saveResolved", Null, FALSE, filePath, NoWrite)
    /\ UNCHANGED <<revision, uiVars, isFormatMode, defaultPath, requested>>

(* The save dialog resolves with a path, or null when cancelled; with a    *)
(* path saveFile calls writeTextFile(filePath, rawJsonInput.value).        *)
saveResolved(t, filePath) ==
    /\ t \in Pending("save")
    /\ IF filePath = NoPath
       THEN /\ NoSync("No file path selected.")
            /\ inflight' = Settled(inflight, t)
       ELSE /\ NoSync("File saved successfully!")
            /\ inflight' = Started(Settled(inflight, t), WriteTask(filePath, rawJsonInput))
    /\ Record("saveResolved", Null, FALSE, filePath, NoWrite)
    /\ UNCHANGED <<revision, uiVars, isFormatMode, defaultPath, requested>>

(* The save dialog rejects: caught by saveFile.                            *)
saveRejected(t, e) ==
    /\ t \in Pending("save")
    /\ inflight' = Settled(inflight, t)
    /\ NoSync("Error saving file: " \o e)
    /\ History("saveRejected", Null, FALSE)
    /\ UNCHANGED <<revision, uiVars, isFormatMode, defaultPath, requested>>

(* writeTextFile resolves: the file holds the text the call was given.     *)
writeResolved(t) ==
    /\ t \in Pending("write")
    /\ defaultPath' = t.path
    /\ inflight' = Settled(inflight, t)
    /\ NoSync(errorMessage)
    /\ Record("writeResolved", Null, FALSE, t.path, <<t.path, t.text>>)
    /\ UNCHANGED <<revision, uiVars, isFormatMode, requested>>

writeRejected_SetsPath(t, e) ==
    /\ t \in Pending("write")
    /\ defaultPath' = t.path
    /\ inflight' = Settled(inflight, t)
    /\ NoSync("Error saving file: " \o e)
    /\ Record("writeRejected", Null, FALSE, t.path, NoWrite)
    /\ UNCHANGED <<revision, uiVars, isFormatMode, requested>>

(* writeTextFile rejects: caught by saveFile.                              *)
writeRejected(t, e) ==
    /\ t \in Pending("write")
    /\ inflight' = Settled(inflight, t)
    /\ NoSync("Error saving file: " \o e)
    /\ Record("writeRejected", Null, FALSE, t.path, NoWrite)
    /\ UNCHANGED <<revision, uiVars, isFormatMode, defaultPath, requested>>

(* ---------------------------------------------------------------------- *)
(* The user interface: panels, font sizes, colour and the switches of the  *)
(* tree widget.  None of these handlers assigns rawJsonInput, so no        *)
(* watcher job follows them.                                               *)
(* ---------------------------------------------------------------------- *)
(* The revisions with panel buttons and font-size buttons.                 *)
Panelled == {"part_000", "part_001"}

(* A handler of the user interface ran: the text, the tree, the message    *)
(* and the file state stay as they are.                                    *)
Interface(op) ==
    /\ NoSync(errorMessage)
    /\ History(op, Null, FALSE)
    /\ UNCHANGED <<revision, fileVars>>

toggleLeftPanel ==
    /\ revision \in Panelled
    /\ isLeftPanelVisible' = ~isLeftPanelVisible
    /\ Interface("toggleLeftPanel")
    /\ UNCHANGED <<isRightPanelVisible, treeVars, fontVars, textareaBackgroundColor>>

toggleRightPanel ==
    /\ revision \in Panelled
    /\ isRightPanelVisible' = ~isRightPanelVisible
    /\ Interface("toggleRightPanel")
    /\ UNCHANGED <<isLeftPanelVisible, treeVars, fontVars, textareaBackgroundColor>>

(* @click="showLineNumber = !showLineNumber"                               *)
toggleLineNumber ==
    /\ showLineNumber' = ~showLineNumber
    /\ Interface("toggleLineNumber")
    /\ UNCHANGED <<panelVars, showLength, isEditable, fontVars, textareaBackgroundColor>>

(* @click="showLength = !showLength"                                       *)
toggleLength ==
    /\ showLength' = ~showLength
    /\ Interface("toggleLength")
    /\ UNCHANGED <<panelVars, showLineNumber, isEditable, fontVars, textareaBackgroundColor>>

(* @click="isEditable = !isEditable"                                       *)
toggleEditable ==
    /\ isEditable' = ~isEditable
    /\ Interface("toggleEditable")
    /\ UNCHANGED <<panelVars, showLineNumber, showLength, fontVars, textareaBackgroundColor>>

(* size += 0.1                                                             *)
Increased(size) == size + FontStep

(* if (size > 0.5) { size -= 0.1 }                                         *)
Decreased(size) == IF size > MinFontSize THEN size - FontStep ELSE size

increaseFontSize ==
    /\ revision \in Panelled
    /\ inputFontSize' = Increased(inputFontSize)
    /\ Interface("increaseFontSize")
    /\ UNCHANGED <<panelVars, treeVars, outputFontSize, textareaBackgroundColor>>

decreaseFontSize ==
    /\ revision \in Panelled
    /\ inputFontSize' = Decreased(inputFontSize)
    /\ Interface("decreaseFontSize")
    /\ UNCHANGED <<panelVars, treeVars, outputFontSize, textareaBackgroundColor>>

increaseOutputFontSize ==
    /\ revision \in Panelled
    /\ outputFontSize' = Increased(outputFontSize)
    /\ Interface("increaseOutputFontSize")
    /\ UNCHANGED <<panelVars, treeVars, inputFontSize, textareaBackgroundColor>>

decreaseOutputFontSize ==
    /\ revision \in Panelled
    /\ outputFontSize' = Decreased(outputFontSize)
    /\ Interface("decreaseOutputFontSize")
    /\ UNCHANGED <<panelVars, treeVars, inputFontSize, textareaBackgroundColor>>

(* part_001: the reset, also Ctrl/Cmd+0.                                   *)
resetFontSize ==
    /\ revision = "part_001"
    /\ inputFontSize' = defaultInputFontSize
    /\ outputFontSize' = defaultOutputFontSize
    /\ Interface("resetFontSize")
    /\ UNCHANGED <<panelVars, treeVars, textareaBackgroundColor>>

(* The keydown listener with Ctrl or Cmd held: '=' and '+' increase both   *)
(* font sizes, '-' decreases both.  Its other keys call resetFontSize,     *)
(* openFile and saveFile.                                                  *)
FontKeys == {"=", "+", "-"}

handleKeyboardEvent(key) ==
    /\ revision \in Panelled
    /\ inputFontSize' =
          IF key = "-" THEN Decreased(inputFontSize) ELSE Increased(inputFontSize)
    /\ outputFontSize' =
          IF key = "-" THEN Decreased(outputFontSize) ELSE Increased(outputFontSize)
    /\ Interface("handleKeyboardEvent")
    /\ UNCHANGED <<panelVars, treeVars, textareaBackgroundColor>>

(* part_001: the colour input bound with v-model, opened by                *)
(* openColorPicker; the watcher of the colour stores it in localStorage.   *)
pickColor(newColor) ==
    /\ revision = "part_001"
    /\ textareaBackgroundColor' = newColor
    /\ Interface("pickColor")
    /\ UNCHANGED <<panelVars, treeVars, fontVars>>

(* part_001, onMounted: the colour stored by an earlier session, if any.   *)
defaultBackgroundColor(savedColor) ==
    /\ revision = "part_001"
    /\ lastOp = "init"
    /\ textareaBackgroundColor' = savedColor
    /\ Interface("defaultBackgroundColor")
    /\ UNCHANGED <<panelVars, treeVars, fontVars>>

(* ---------------------------------------------------------------------- *)
(* Specifications.                                                         *)
(* ---------------------------------------------------------------------- *)
(* Spec: the synchronisation of the text and the tree in every revision,   *)
(* under typing, tree edits, formatting and the loading of files.          *)
Next ==
    \/ \E t \in InputTexts : textareaInput(t)
    \/ \E v \in EditValues \cup {displayData} : handleEdit(v)
    \/ formatJson
    \/ minifyJson
    \/ toggleFormatMinify
    \/ Room(MaxInFlight) /\ openFile
    \/ \E t \in Pending("open"), p \in OpenPaths \cup {NoPath} : openResolved(t, p)
    \/ \E t \in Pending("open") : openRejected(t)
    \/ \E ps \in {<<>>} \cup {<<p>> : p \in OpenPaths} :
          Room(MaxInFlight) /\ handleFileDragDrop(ps)
    \/ \E t \in Pending("read"), c \in FileContents : readResolved(t, c)
    \/ \E t \in Pending("read") : readRejected(t)

Spec == Init /\ [][Next]_vars

(* FileSpec: part_001 with its open, drop and save operations, the texts   *)
(* the user types being fewer.                                             *)
FileTexts == {TrailingComma}

(* []                                                                      *)
EmptyArray == <<"[", "]">>

(* The lines a read yields in FileSpec: a text that does not parse, and    *)
(* one whose two serializations are the same text.                         *)
FileLoads == {<<ObjTruncated>>, <<EmptyArray>>}

FileInit == Init /\ revision = "part_001"

FileNext ==
    \/ \E t \in FileTexts : textareaInput(t)
    \/ handleEdit(displayData)
    \/ toggleFormatMinify
    \/ Room(MaxInFlight) /\ openFile
    \/ \E t \in Pending("open"), p \in OpenPaths \cup {NoPath} : openResolved(t, p)
    \/ \E t \in Pending("open") : openRejected(t)
    \/ \E ps \in {<<>>} \cup {<<p>> : p \in OpenPaths} :
          Room(MaxInFlight) /\ handleFileDragDrop(ps)
    \/ \E t \in Pending("read"), c \in FileLoads : readResolved(t, c)
    \/ \E t \in Pending("read") : readRejected(t)
    \/ Room(MaxInFlight) /\ saveFile
    \/ \E t \in Pending("save"), p \in SavePaths \cup {NoPath} : saveResolved(t, p)
    \/ \E t \in Pending("save"), e \in IOErrors : saveRejected(t, e)
    \/ \E t \in Pending("write") : writeResolved(t)
    \/ \E t \in Pending("write"), e \in IOErrors : writeRejected(t, e)

FileSpec == FileInit /\ [][FileNext]_vars

(* FontSpec: the font-size buttons and keys of part_000 and part_001.  A   *)
(* font is increased while it is below MaxFontSize.                        *)
FontInit == Init /\ revision \in Panelled

Growable(size) == size < MaxFontSize

FontNext ==
    \/ Growable(inputFontSize) /\ increaseFontSize
    \/ decreaseFontSize
    \/ Growable(outputFontSize) /\ increaseOutputFontSize
    \/ decreaseOutputFontSize
    \/ resetFontSize
    \/ \E key \in FontKeys :
          /\ key = "-" \/ (Growable(inputFontSize) /\ Growable(outputFontSize))
          /\ handleKeyboardEvent(key)

FontSpec == FontInit /\ [][FontNext]_vars

(* UISpec: every handler of the user interface next to the operations on   *)
(* the text and the save.  The controls are operated one at a time: a      *)
(* control is moved away from its initial setting while the others are at  *)
(* theirs, and a font is taken one step up from its initial size and back. *)
AtInitialSize ==
    /\ inputFontSize = InitialInputFontSize(revision)
    /\ outputFontSize = InitialOutputFontSize(revision)

Away(atInitial) == IF atInitial THEN 0 ELSE 1

OneAtATime ==
    Away(isLeftPanelVisible) + Away(isRightPanelVisible) + Away(showLineNumber)
    + Away(showLength) + Away(isEditable) + Away(AtInitialSize)
    + Away(textareaBackgroundColor = "#444") <= 1

UINext ==
    \/ toggleLeftPanel /\ OneAtATime'
    \/ toggleRightPanel /\ OneAtATime'
    \/ toggleLineNumber /\ OneAtATime'
    \/ toggleLength /\ OneAtATime'
    \/ toggleEditable /\ OneAtATime'
    \/ inputFontSize = InitialInputFontSize(revision) /\ increaseFontSize /\ OneAtATime'
    \/ inputFontSize > InitialInputFontSize(revision) /\ decreaseFontSize
    \/ outputFontSize = InitialOutputFontSize(revision) /\ increaseOutputFontSize
          /\ OneAtATime'
    \/ outputFontSize > InitialOutputFontSize(revision) /\ decreaseOutputFontSize
    \/ ~AtInitialSize /\ resetFontSize
    \/ \E key \in FontKeys : AtInitialSize /\ key # "-" /\ handleKeyboardEvent(key)
          /\ OneAtATime'
    \/ \E c \in Colors : pickColor(c) /\ OneAtATime'
    \/ \E c \in Colors : defaultBackgroundColor(c)
    \/ \E t \in FileTexts : textareaInput(t)
    \/ handleEdit(displayData)
    \/ formatJson
    \/ minifyJson
    \/ toggleFormatMinify
    \/ Room(MaxInFlight) /\ saveFile
    \/ \E t \in Pending("save"), p \in {DataJson, NoPath} : saveResolved(t, p)
    \/ \E t \in Pending("save"), e \in IOErrors : saveRejected(t, e)
    \/ \E t \in Pending("write") : writeResolved(t)
    \/ \E t \in Pending("write"), e \in IOErrors : writeRejected(t, e)

UISpec == Init /\ [][UINext]_vars

(* LoadSpec: the loads of part_001, by the dialog and by drops, of two     *)
(* files with supported extensions.  One more call may be in flight than   *)
(* in the other specifications, so that two loads overlap; every read      *)
(* succeeds and yields the lines of its file.                              *)
NotesTxt == <<"notes", "txt">>

LoadPaths == {DataJson, NotesTxt}

Files == [p \in LoadPaths |-> IF p = DataJson THEN <<ObjMin>> ELSE <<EmptyArray>>]

LoadNext ==
    \/ Room(MaxInFlight + 1) /\ openFile
    \/ \E t \in Pending("open"), p \in LoadPaths : openResolved(t, p)
    \/ \E p \in LoadPaths : Room(MaxInFlight + 1) /\ handleFileDragDrop(<<p>>)
    \/ \E t \in Pending("read") : readResolved(t, Files[t.path])

LoadSpec == FileInit /\ [][LoadNext]_vars

(* ContentSpec: the loads of part_001 of four files with supported         *)
(* extensions, each read yielding the lines of its file: data.json is an   *)
(* object on four lines, the first and last empty and the third ending in  *)
(* '\0'; big.json is 1e400 between spaces; notes.txt is a truncated object *)
(* followed by a blank line; empty.txt has no line.                        *)
BigJson == <<"big", "json">>

EmptyTxt == <<"empty", "txt">>

DocumentPaths == {DataJson, BigJson, NotesTxt, EmptyTxt}

Documents ==
    [p \in DocumentPaths |->
        IF p = DataJson
        THEN <<<<>>, <<"{", "\"", "a", "\"", ":", "1", ",">>,
               <<" ", "\"", "a", "\"", ":", "-", "2", ".", "5", "0", "}", NUL>>, <<>>>>
        ELSE IF p = BigJson THEN <<<<" ">> \o Overflow \o <<" ">>>>
        ELSE IF p = NotesTxt THEN <<ObjTruncated \o <<" ">>, <<>>>>
        ELSE <<>>]

ContentNext ==
    \/ \E t \in FileTexts : textareaInput(t)
    \/ toggleFormatMinify
    \/ Room(MaxInFlight) /\ openFile
    \/ \E t \in Pending("open"), p \in DocumentPaths : openResolved(t, p)
    \/ \E p \in DocumentPaths : Room(MaxInFlight) /\ handleFileDragDrop(<<p>>)
    \/ \E t \in Pending("read") : readResolved(t, Documents[t.path])

ContentSpec == FileInit /\ [][ContentNext]_vars

(* ---------------------------------------------------------------------- *)
(* Properties.                                                             *)
(* ---------------------------------------------------------------------- *)
(* A value JSON can represent: every number in it is finite.               *)
RECURSIVE Representable(_)
Representable(v) ==
    IF v[1] = "inf" THEN FALSE
    ELSE IF v[1] = "arr" THEN \A n \in DOMAIN v[2] : Representable(v[2][n])
    ELSE IF v[1] = "obj" THEN \A n \in DOMAIN v[2] : Representable(v[2][n][2])
    ELSE TRUE

(* The step assigned rawJsonInput a different text, so the watcher         *)
(* callback ran on it.                                                     *)
TextChanged == rawJsonInput' # rawJsonInput

(* C1: after every task and the watcher run that ends it, DisplayValue is  *)
(* the parse of the most recent RawText that parsed; a failed parse does   *)
(* not clear or replace it.                                                *)
ParsesTo(r, v) == r.ok /\ r.val = v

C1_DisplayIsLastValidParse == ParsesTo(JSONparse(lastValid), displayData)

(* A failed parse happened after the display had moved on from the sample. *)
C1_Witness ==
    /\ watchRan = "failed"
    /\ lastValid \notin {rawJsonInput, SampleDocument}
    /\ displayData = JSONparse(lastValid).val

(* C2: when the watcher callback runs on a text that does not parse,       *)
(* DisplayValue keeps its prior value and Diagnostic becomes non-empty.    *)
KeepsDisplay(r) == ~r.ok => (displayData' = displayData /\ errorMessage' # "")

C2_InvalidTextKeepsDisplay ==
    [][TextChanged => KeepsDisplay(JSONparse(rawJsonInput'))]_vars

C2_Witness ==
    /\ lastOp = "textareaInput"
    /\ watchRan = "failed"
    /\ ~JSONparse(rawJsonInput).ok
    /\ errorMessage # ""

(* C3: when the watcher callback runs on a text that parses, DisplayValue  *)
(* becomes its parse and Diagnostic becomes empty, whatever Diagnostic     *)
(* held before.                                                            *)
UpdatesDisplay(r) == r.ok => (displayData' = r.val /\ errorMessage' = "")

C3_ValidTextUpdatesDisplay ==
    [][TextChanged => UpdatesDisplay(JSONparse(rawJsonInput'))]_vars

C3_Witness ==
    /\ watchRan = "parsed"
    /\ priorError
    /\ displayData = JSONparse(rawJsonInput).val
    /\ errorMessage = ""

(* C4, as stated: after handleEdit(v) for a JSON-representable v the       *)
(* watcher has re-parsed the text, so DisplayValue is v and Diagnostic is  *)
(* empty.                                                                  *)
C4_AsStated ==
    (lastOp = "handleEdit" /\ Representable(edited))
    => (displayData = edited /\ errorMessage = "")

(* C4, amended: handleEdit(v) for a JSON-representable v ends with         *)
(* DisplayValue = v.  When the serialized text differs from the prior      *)
(* RawText the watcher re-parses it and Diagnostic becomes empty; when it  *)
(* is the same text the watcher does not run and Diagnostic keeps its      *)
(* prior value.                                                            *)
C4_EditReparsesChangedText ==
    [][(lastOp' = "handleEdit" /\ Representable(edited'))
       => /\ displayData' = edited'
          /\ IF TextChanged
             THEN watchRan' = "parsed" /\ errorMessage' = ""
             ELSE watchRan' = "no" /\ errorMessage' = errorMessage]_vars

(* An edit that serializes to the text already there left a message.       *)
C4_Witness ==
    /\ lastOp = "handleEdit"
    /\ Representable(edited)
    /\ watchRan = "no"
    /\ displayData = edited
    /\ errorMessage # ""

(* C5: handleEdit(v) for a JSON-representable v sets RawText to the        *)
(* serialization of v with a 2-space indent, and that text parses to v;    *)
(* also when the prior RawText did not parse.                              *)
C5_EditRoundTrip ==
    [][(lastOp' = "handleEdit" /\ Representable(edited'))
       => /\ rawJsonInput' = JSONstringify(edited', 2)
          /\ ParsesTo(JSONparse(rawJsonInput'), edited')]_vars

(* An edit arrived while RawText did not parse.                            *)
C5_Witness ==
    /\ revision = "App.vue"
    /\ lastOp = "handleEdit"
    /\ priorError
    /\ edited \in EditValues
    /\ rawJsonInput = JSONstringify(edited, 2)


(* The last task was a click on Format: the Format button of App.vue, or   *)
(* the button of part_001 switching to the pretty form.                    *)
Formatting ==
    \/ lastOp = "formatJson"
    \/ (lastOp = "toggleFormatMinify" /\ ~isFormatMode)

(* The last task was a click on Minify.                                    *)
Minifying ==
    \/ lastOp = "minifyJson"
    \/ (lastOp = "toggleFormatMinify" /\ isFormatMode)

(* `Invalid JSON: ${error.message}` for the text.                          *)
ParserMessage(text) == SyntaxErrorMessage(text, JSONparse(text).pos)

(* C6: format() on a RawText that parses replaces it with the              *)
(* serialization of its parse with a 2-space indent and leaves Diagnostic  *)
(* empty; {"a":1} becomes the three lines {, "a": 1 indented by 2, }.      *)
Rewrote(r, space) ==
    r.ok => (rawJsonInput' = JSONstringify(r.val, space) /\ errorMessage' = "")

C6_FormatPrettyPrints ==
    [][Formatting'
       => /\ Rewrote(JSONparse(rawJsonInput), 2)
          /\ (rawJsonInput = ObjMin => rawJsonInput' = ObjPretty)]_vars

(* A click on Format rewrote a text into the three-line document.          *)
C6_Witness ==
    /\ Formatting
    /\ original = ObjMin
    /\ rawJsonInput = ObjPretty
    /\ errorMessage = ""

(* C7: format() and minify() on a RawText that does not parse leave        *)
(* RawText and DisplayValue as they were and set Diagnostic to             *)
(* "Invalid JSON: " followed by the parser's message; nothing is thrown    *)
(* out of the handler.                                                     *)
Reported(r) ==
    ~r.ok => /\ rawJsonInput' = rawJsonInput
             /\ displayData' = displayData
             /\ errorMessage' = "Invalid JSON: " \o SyntaxErrorMessage(rawJsonInput, r.pos)
             /\ ~unhandled'

C7_InvalidFormatReports ==
    [][(Formatting' \/ Minifying') => Reported(JSONparse(rawJsonInput))]_vars

C7_Witness ==
    /\ Minifying
    /\ original = rawJsonInput
    /\ ~JSONparse(rawJsonInput).ok
    /\ errorMessage = "Invalid JSON: " \o ParserMessage(rawJsonInput)

(* C8, as stated: minify() on a RawText that parses replaces it with the   *)
(* serialization of its parse without whitespace and leaves Diagnostic     *)
(* empty, and DisplayValue afterwards is the parse of the original text.   *)
Displays(r) == r.ok => displayData' = r.val

C8_AsStated ==
    [][Minifying'
       => /\ Rewrote(JSONparse(rawJsonInput), 0)
          /\ Displays(JSONparse(rawJsonInput))]_vars

(* C9, as stated: format() and then minify() on a RawText T that parses    *)
(* leave a RawText whose parse is the parse of T.                          *)
Preserved(r, after) == r.ok => ParsesTo(after, r.val)

C9_AsStated ==
    [][(Formatting /\ Minifying')
       => Preserved(JSONparse(original), JSONparse(rawJsonInput'))]_vars

(* Messages the file operations of part_001 leave in errorMessage.         *)
FileMessages ==
    {"File saved successfully!", "No file path selected.", "file extension is null."}
    \cup {"Error saving file: " \o e : e \in IOErrors}
    \cup {"Unsupported file type: " \o Extension(f) : f \in OpenPaths}

FileOperations ==
    {"openResolved", "handleFileDragDrop", "saveResolved", "saveRejected", "writeRejected"}

(* m is the parser's message for text, plain or behind "Invalid JSON: ".   *)
IsParseError(text, r, m) ==
    /\ ~r.ok
    /\ m \in {SyntaxErrorMessage(text, r.pos),
              "Invalid JSON: " \o SyntaxErrorMessage(text, r.pos)}

ParseErrorFor(text, m) == IsParseError(text, JSONparse(text), m)

(* C10, as stated: Diagnostic is empty or the parser's error description   *)
(* for the current RawText.                                                *)
C10_AsStated ==
    errorMessage = "" \/ ParseErrorFor(rawJsonInput, errorMessage)

(* C10, amended: Diagnostic is empty, or the parser's message for the      *)
(* current RawText (plain or behind "Invalid JSON: "), or a message of a   *)
(* file operation; a task gives it a new non-empty value only when a parse *)
(* of the RawText it leaves failed, or when it is a file operation leaving *)
(* its message.                                                            *)
C10_DiagnosticSources ==
    [][/\ \/ errorMessage' = ""
          \/ errorMessage' \in FileMessages
          \/ ParseErrorFor(rawJsonInput', errorMessage')
       /\ (errorMessage' # "" /\ errorMessage' # errorMessage)
          => \/ (lastOp' \in FileOperations /\ errorMessage' \in FileMessages)
             \/ ParseErrorFor(rawJsonInput', errorMessage')]_vars

(* The save message stands while RawText parses.                           *)
C10_Witness ==
    /\ lastOp = "saveResolved"
    /\ errorMessage = "File saved successfully!"
    /\ JSONparse(rawJsonInput).ok

(* The tasks in which a file operation fails: a dialog, a read or a write  *)
(* rejects.                                                                *)
IOFailures == {"openRejected", "readRejected", "saveRejected", "writeRejected"}

(* C11, as stated: when a dialog, a read or a write of an open, a drop or  *)
(* a save fails, the failure is caught: Diagnostic becomes a non-empty     *)
(* message, RawText and DisplayValue keep their values and nothing escapes *)
(* the handler.                                                            *)
C11_AsStated ==
    [][lastOp' \in IOFailures
       => /\ errorMessage' # ""
          /\ ~unhandled'
          /\ rawJsonInput' = rawJsonInput
          /\ displayData' = displayData]_vars

(* The step was given a path, by the open dialog or by a drop.             *)
Opening == lastOp' \in {"openResolved", "handleFileDragDrop"} /\ path' # NoPath

(* The step started no read and ended none.                                *)
SameReads ==
    \A t \in Reads(inflight) \cup Reads(inflight') :
        CopiesIn(t, inflight') = CopiesIn(t, inflight)

(* C12: when the open dialog or a drop gives a path whose extension is     *)
(* neither json nor txt, no read is started, RawText and DisplayValue keep *)
(* their values and Diagnostic becomes "Unsupported file type: " followed  *)
(* by the extension.                                                       *)
C12_UnsupportedOpenRejected ==
    [][(Opening /\ Extension(path') \notin fileExtensions)
       => /\ SameReads
          /\ rawJsonInput' = rawJsonInput
          /\ displayData' = displayData
          /\ errorMessage' = "Unsupported file type: " \o Extension(path')]_vars

(* An .md file was dropped after the text had been changed.                *)
C12_Witness ==
    /\ lastOp = "handleFileDragDrop"
    /\ path = ReadmeMd
    /\ Reads(inflight) = {}
    /\ rawJsonInput = ObjMin
    /\ displayData = JSONparse(ObjMin).val
    /\ errorMessage = "Unsupported file type: md"

(* The write calls in flight.                                              *)
Writes(tasks) == {t \in BagToSet(tasks) : t.op = "write"}

(* The step started no write and ended none.                               *)
SameWrites ==
    \A t \in Writes(inflight) \cup Writes(inflight') :
        CopiesIn(t, inflight') = CopiesIn(t, inflight)

(* C13, as stated: when the save dialog gives a path whose extension is    *)
(* neither json nor txt, nothing is written, the default path keeps its    *)
(* value and Diagnostic becomes an "Unsupported file type" message.        *)
C13_AsStated ==
    [][(lastOp' = "saveResolved" /\ path' # NoPath
        /\ Extension(path') \notin fileExtensions)
       => /\ SameWrites
          /\ defaultPath' = defaultPath
          /\ errorMessage' = "Unsupported file type: " \o Extension(path')]_vars

(* The step put the call t in flight, or settled it.                       *)
Began(t) == CopiesIn(t, inflight') = CopiesIn(t, inflight) + 1

Ended(t) == CopiesIn(t, inflight) = CopiesIn(t, inflight') + 1

(* C14: when the save dialog gives a path P, writeTextFile is called with  *)
(* P and the text RawText holds at that moment; when that write resolves,  *)
(* the file P holds that text and the default path becomes P, which the    *)
(* next save dialog is given as its default.  A cancelled dialog starts no *)
(* write, and a cancelled dialog, a failed dialog and a failed write leave *)
(* no file written and the default path as it was.                         *)
C14_SaveWritesRawText ==
    [][/\ (lastOp' = "saveResolved" /\ path' # NoPath)
          => Began(WriteTask(path', rawJsonInput))
       /\ lastOp' = "writeResolved"
          => /\ \E t \in Writes(inflight) :
                   Ended(t) /\ written' = <<t.path, t.text>> /\ t.path = path'
             /\ defaultPath' = path'
       /\ lastOp' = "saveFile" => Began(Task("save", defaultPath))
       /\ (lastOp' = "saveResolved" /\ path' = NoPath)
          => (SameWrites /\ written' = NoWrite /\ defaultPath' = defaultPath)
       /\ lastOp' \in {"saveRejected", "writeRejected"}
          => (written' = NoWrite /\ defaultPath' = defaultPath)]_vars

(* A write to data.json resolved after the text had been changed: the file *)
(* holds the text RawText had when writeTextFile was called.               *)
C14_Witness ==
    /\ lastOp = "writeResolved"
    /\ written = <<DataJson, SampleDocument>>
    /\ rawJsonInput = TrailingComma
    /\ defaultPath = DataJson

(* The tasks that continue an operation after one of its awaits.           *)
Continuations ==
    {"openResolved", "openRejected", "readResolved", "readRejected",
     "saveResolved", "saveRejected", "writeResolved", "writeRejected"}

(* The handlers without an await.                                          *)
SynchronousOperations ==
    {"textareaInput", "handleEdit", "formatJson", "minifyJson", "toggleFormatMinify"}

(* C15, as stated: an operation runs as one atomic step; between the start *)
(* of an open, a save or a load and its last state update no other handler *)
(* runs.                                                                   *)
C15_AsStated == [][inflight # EmptyBag => lastOp' \in Continuations]_vars

(* C15, amended: a text change, a format or minify and a tree edit run as  *)
(* one step and leave no call in flight.  An open, a save and a load are   *)
(* asynchronous: the step that starts an open or a save only puts the      *)
(* dialog call in flight and writes none of RawText, DisplayValue,         *)
(* Diagnostic and the default path; the operation goes on in later steps,  *)
(* one per await, and other handlers run in between.                       *)
C15_OperationsAndAwaits ==
    [][/\ lastOp' \in SynchronousOperations => inflight' = inflight
       /\ lastOp' \in {"openFile", "saveFile"}
          => /\ BagCardinality(inflight') = BagCardinality(inflight) + 1
             /\ UNCHANGED <<syncVars, defaultPath>>
       /\ lastOp' \in Continuations
          => \E t \in BagToSet(inflight) : CopiesIn(t, inflight') < CopiesIn(t, inflight)]_vars

(* The text was changed while the write of a save was in flight, and the   *)
(* save's message was replaced.                                            *)
C15_Witness ==
    /\ lastOp = "textareaInput"
    /\ Writes(inflight) # {}
    /\ rawJsonInput = TrailingComma
    /\ errorMessage # "File saved successfully!"

(* The operations of the synchronisation rule: the handlers of the text    *)
(* and the tree, and the end of a file load.                               *)
SynchronisationOperations == SynchronousOperations \cup {"readResolved"}

(* C16: RawText and DisplayValue start as the sample document and its      *)
(* parse, with Diagnostic empty, and a task changes either of them only if *)
(* it is a text input, a format or minify, a tree edit or the end of a     *)
(* file load; the panel, font-size, colour and tree-switch handlers and    *)
(* every step of a save leave both as they are.                            *)
C16_OnlySynchronisationWrites ==
    [][/\ lastOp = "init"
          => /\ rawJsonInput = SampleDocument
             /\ ParsesTo(JSONparse(SampleDocument), displayData)
             /\ errorMessage = ""
       /\ (rawJsonInput' # rawJsonInput \/ displayData' # displayData)
          => lastOp' \in SynchronisationOperations]_vars

(* The fonts were reset while the text did not parse and after a save had  *)
(* completed: the text and the tree are as the last text input left them.  *)
C16_Witness ==
    /\ lastOp = "resetFontSize"
    /\ defaultPath = DataJson
    /\ rawJsonInput = TrailingComma
    /\ displayData = JSONparse(SampleDocument).val

(* C17: after every task and the watcher run that ends it, an empty        *)
(* Diagnostic means that RawText parses and DisplayValue is its parse.     *)
C17_EmptyDiagnosticMeansInSync ==
    errorMessage = "" => ParsesTo(JSONparse(rawJsonInput), displayData)

(* A click on the Format/Minify button cleared the message a completed     *)
(* save had left.                                                          *)
C17_Witness ==
    /\ lastOp = "toggleFormatMinify"
    /\ priorError
    /\ defaultPath = DataJson
    /\ errorMessage = ""
    /\ ParsesTo(JSONparse(rawJsonInput), displayData)

(* The text a load of the file p leaves in RawText.                        *)
Loaded(p) == _toggleFormat(isFormatMode, Trim(JoinLines(Files[p]))).raw

(* RawText and DisplayValue hold the content of the file p, and the        *)
(* default path is p.                                                      *)
Shows(p, text) ==
    /\ rawJsonInput' = text
    /\ ParsesTo(JSONparse(text), displayData')
    /\ defaultPath' = p

(* C18, as stated: when a load B was requested while the read of a load A  *)
(* was pending, then once both reads have completed RawText and            *)
(* DisplayValue hold the content of B and the default path is B.           *)
C18_AsStated ==
    [][(lastOp' = "readResolved" /\ Reads(inflight') = {} /\ Len(requested) = 2)
       => Shows(requested[2], Loaded(requested[2]))]_vars

(* C19, as stated: with steps of exactly 0.1em, neither font size is ever  *)
(* below 0.5em, whatever buttons and keys were pressed.                    *)
C19_AsStated == inputFontSize >= MinFontSize /\ outputFontSize >= MinFontSize

(* The step was a drop of a file whose extension is neither json nor txt.  *)
RejectedDrop ==
    /\ lastOp' = "handleFileDragDrop"
    /\ path' # NoPath
    /\ Extension(path') \notin fileExtensions

(* C20, as stated: the default path is the initial untitled.json or a path *)
(* with the extension json or txt, and the drop of a file that is rejected *)
(* leaves it as it was.                                                    *)
C20_AsStated ==
    [][/\ defaultPath' = UntitledJson \/ Extension(defaultPath') \in fileExtensions
       /\ RejectedDrop => defaultPath' = defaultPath]_vars

(* The label of the format button of part_001.                             *)
Label(mode) == IF mode THEN "Format" ELSE "Minify"

(* The indent of the form a label names.                                   *)
Named(label) == IF label = "Format" THEN PrettyIndent ELSE 0

(* A click on the button of part_001 on a text whose parse is r: the mode  *)
(* flips, the text becomes the form the label named, and its parse stays.  *)
Alternates(r) ==
    r.ok => /\ isFormatMode' = ~isFormatMode
            /\ rawJsonInput' = JSONstringify(r.val, Named(Label(isFormatMode)))
            /\ ParsesTo(JSONparse(rawJsonInput'), r.val)

(* The label names the other form than the one the text, whose parse is r, *)
(* is in.                                                                  *)
NamesOther(text, r, mode) ==
    r.ok /\ text = JSONstringify(r.val, Named(Label(~mode)))

(* C21, as stated: each click of toggleFormatMinify on a RawText that      *)
(* parses flips isFormatMode and rewrites RawText into the form the label  *)
(* named before the click, the parse of RawText staying the same; after    *)
(* the click the label names the form RawText is not in.                   *)
C21_AsStated ==
    [][(lastOp' = "toggleFormatMinify" /\ JSONparse(rawJsonInput).ok)
       => /\ Alternates(JSONparse(rawJsonInput))
          /\ NamesOther(rawJsonInput', JSONparse(rawJsonInput'), isFormatMode')]_vars

(* The trimmed content of the file p.                                      *)
Content(p) == Trim(JoinLines(Documents[p]))

(* A load of a text c whose parse is r completed.                          *)
LoadedValid(r) ==
    r.ok => /\ rawJsonInput' = JSONstringify(r.val, IF isFormatMode THEN 0 ELSE PrettyIndent)
            /\ displayData' = r.val
            /\ errorMessage' = ""

(* C22, as stated: when a load of a supported file whose trimmed content c *)
(* parses completes, RawText is the serialization of parse(c), with a      *)
(* 2-space indent when isFormatMode is false and without whitespace when   *)
(* it is true, DisplayValue is parse(c) and Diagnostic is empty.           *)
C22_AsStated ==
    [][lastOp' = "readResolved" => LoadedValid(JSONparse(Content(path')))]_vars

(* A load of a text c whose parse is r completed.                          *)
LoadedInvalid(c, r) ==
    ~r.ok => /\ rawJsonInput' = c
             /\ displayData' = displayData
             /\ ParsesTo(JSONparse(lastValid'), displayData')
             /\ errorMessage' # ""

(* C23: when a load of a supported file whose trimmed content does not     *)
(* parse completes, RawText is that trimmed content, DisplayValue is the   *)
(* value it was, the parse of the last RawText that parsed, and Diagnostic *)
(* is not empty after the watcher run, whether or not the content differs  *)
(* from the RawText before.                                                *)
C23_InvalidLoadKeepsDisplay ==
    [][lastOp' = "readResolved"
       => LoadedInvalid(Content(path'), JSONparse(Content(path')))]_vars

(* A load of notes.txt completed while RawText already was its content:    *)
(* the watcher did not run and the message is the one of _toggleFormat.    *)
C23_Witness ==
    /\ lastOp = "readResolved"
    /\ path = NotesTxt
    /\ watchRan = "no"
    /\ rawJsonInput = ObjTruncated
    /\ errorMessage = "Invalid JSON: " \o ParserMessage(ObjTruncated)

====
